---- MODULE Spec2Model ----
(***************************************************************************)
(* Monte Carlo approximation of pi, sequentially and split over workers:   *)
(* SingleThread, SimpleAsync, AsyncNoRef and Threads of                    *)
(* Application/src/main.cpp, Async and Threads of                          *)
(* Application/include/workingImplementation.h.                            *)
(*                                                                         *)
(* A frame is one activation of the sampling loop: frame Main is the       *)
(* calling thread, frames 0 .. nrOfWorkers-1 are the approximatePi lambdas *)
(* run by std::async tasks or std::threads.  Every step of a frame is one  *)
(* action, so that the steps of different threads interleave freely.       *)
(***************************************************************************)
EXTENDS Integers, Sequences, FiniteSets, TLC

\* ------------------------------------------------------------------ bounds

MaxIterations == 4
MaxWorkers == 2

\* ------------------------------------------------- unsigned int arithmetic

\* An unsigned int (32 bits) is the pair <<high half, low half>> of 16-bit
\* halves: its value, up to 2^32 - 1, does not fit the checker's integers.
Half == 65536

U32(hi, lo) == <<hi, lo>>

\* u + n modulo 2^32, for a small natural n.
U32Add(u, n) ==
    LET lo == u[2] + n
    IN  <<(u[1] + (lo \div Half)) % Half, lo % Half>>

\* ------------------------------------------- std::default_random_engine

\* std::minstd_rand0: x' = 16807 * x mod (2^31 - 1).
LcgA == 16807
LcgM == 2147483647
LcgQ == 127773
LcgR == 2836

\* u mod LcgM for an unsigned int u.
U32ModM(u) ==
    IF u[1] < Half \div 2
    THEN (u[1] * Half + u[2]) % LcgM
    ELSE ((((u[1] - Half \div 2) * Half + u[2]) % LcgM) + 1) % LcgM

\* The engine state after construction from a seed: seed mod m, and 1 when
\* that is 0 (the increment of the engine is 0).
SeedEngine(u) == IF U32ModM(u) = 0 THEN 1 ELSE U32ModM(u)

\* One advance of the engine; the product is taken by Schrage's method so
\* that no intermediate value exceeds 2^31 - 1.
EngineNext(s) ==
    LET t == LcgA * (s % LcgQ) - LcgR * (s \div LcgQ)
    IN  IF t < 0 THEN t + LcgM ELSE t

\* ------------------------------- std::uniform_real_distribution<float>

\* d(e) maps the engine's output v in 1 .. m-1 to 2 * (v - 1) / (m - 1) - 1
\* in [-1, 1).  Coordinates are held in fixed point, in units of 1 / One:
\* the leading 12 bits of v - 1 select the cell, the coordinate is the
\* cell's midpoint.
CoordShift == 524288
One == 4096

Coord(v) == 2 * ((v - 1) \div CoordShift) - (One - 1)

\* Magnitude(x, y) <= 1.0f, compared on the squares.
MagnitudeSq(cx, cy) == cx * cx + cy * cy

InsideCircle(cx, cy) == MagnitudeSq(cx, cy) <= One * One

\* ------------------------------------------------------------------ inputs

Strategies ==
    {"SingleThread", "SimpleAsync", "AsyncNoRef", "Threads", "Async", "ThreadsJoin"}

\* The functions of workingImplementation.h take no seed.
TakesSeed(s) == s \in {"SingleThread", "SimpleAsync", "AsyncNoRef", "Threads"}

\* SEED of main() (0x1337), a seed whose low half carries into the high half
\* when a worker's ordinal is added, and UINT_MAX, which wraps around to 0.
Seeds == {U32(0, 4919), U32(0, 65535), U32(65535, 65535)}

NoSeed == U32(0, 0)

\* The seeds a strategy is called with: SimpleAsync, whose tasks interleave on
\* one engine, with SEED alone.
SeedsOf(s) ==
    IF s = "SimpleAsync" THEN {U32(0, 4919)}
    ELSE IF TakesSeed(s) THEN Seeds
    ELSE {NoSeed}

\* ------------------------------------------------------------------- state

Main == -1
Workers == 0 .. MaxWorkers - 1
Frames == {Main} \cup Workers

VARIABLES
    strategy,      \* the function called
    iterations,    \* its argument iterations
    nrOfWorkers,   \* its argument nrOfWorkers (1 for SingleThread, which has none)
    seed,          \* its argument seed
    pc,            \* pc[f]: where frame f stands
    e,             \* e[f]: the engine declared in frame f (0: not constructed)
    seedArg,       \* seedArg[f]: the seed (or workerId) frame f was called with
    i,             \* i[f]: the loop counter of frame f
    x,             \* x[f], y[f]: the sample of frame f
    y,
    insideCircle,  \* insideCircle[f]: the counter of frame f; for Main in a
                   \* partitioned strategy, the running sum
    rd,            \* rd[f]: the engine state frame f holds inside a call d(e)
    futures,       \* futures[w]: the shared state of worker w's future
    worker,        \* the caller's loop variable worker
    detached,      \* the threads the caller has detached
    joined,        \* the threads the caller has joined
    users,         \* users[g]: the frames that have read or advanced engine e[g]
    order,         \* the workers whose result was added to the sum, in that order
    setCount,      \* setCount[w]: how often worker w's shared state was set
    startCount,    \* startCount[w]: how often a unit was started for ordinal w
    result         \* the value returned

vars ==
    <<strategy, iterations, nrOfWorkers, seed, pc, e, seedArg, i, x, y,
      insideCircle, rd, futures, worker, detached, joined, users, order,
      setCount, startCount, result>>

inputs == <<strategy, iterations, nrOfWorkers, seed>>

Partitioned == strategy # "SingleThread"

UsesAsync == strategy \in {"SimpleAsync", "AsyncNoRef", "Async"}

UsesThreads == strategy \in {"Threads", "ThreadsJoin"}

\* Mutants of EngineOf: every loop draws from the caller's engine; every loop
\* draws from an engine of its own.
EngineOfCaptured(f) == Main

EngineOfLocal(f) == f

\* The engine a frame's loop draws from: SimpleAsync's lambda captures the
\* caller's e and d by reference, every other loop declares its own.
EngineOf(f) == IF strategy = "SimpleAsync" THEN Main ELSE f

\* Mutant of LoopBound: the first iterations % nrOfWorkers workers take one
\* iteration more.
LoopBoundRemainder(f) ==
    IF f = Main THEN iterations
    ELSE (iterations \div nrOfWorkers)
           + (IF f < iterations % nrOfWorkers THEN 1 ELSE 0)

\* The bound of a frame's loop.
LoopBound(f) == IF f = Main THEN iterations ELSE iterations \div nrOfWorkers

\* Mutant of WorkerSeed: every worker is started with the caller's seed.
WorkerSeedSame(w) == seed

\* Mutant of WorkerSeed: every worker is started with its ordinal alone.
WorkerSeedOrdinalOnly(w) == U32(0, w)

\* The last argument a worker is started with.
WorkerSeed(w) ==
    CASE strategy \in {"AsyncNoRef", "Threads"} -> U32Add(seed, w)
      [] strategy \in {"Async", "ThreadsJoin"} -> U32(0, w)
      [] OTHER -> NoSeed

EmptyFuture == [state |-> "empty", value |-> 0]

NoResult == [kind |-> "none", num |-> 0, den |-> 1]

\* 4.0f * (float)n / (float)d, kept as the fraction 4n / d; 0 / 0 is NaN.
Estimate(n, d) ==
    CASE d # 0 -> [kind |-> "value", num |-> 4 * n, den |-> d]
      [] d = 0 /\ n = 0 -> [kind |-> "nan", num |-> 0, den |-> 0]
      [] OTHER -> [kind |-> "inf", num |-> 4 * n, den |-> 0]

Init ==
    /\ strategy \in Strategies
    /\ iterations \in 0 .. MaxIterations
    /\ nrOfWorkers \in (IF strategy = "SingleThread" THEN {1} ELSE 0 .. MaxWorkers)
    /\ seed \in SeedsOf(strategy)
    /\ pc = [f \in Frames |->
               IF f # Main THEN "idle"
               ELSE IF strategy \in {"SingleThread", "SimpleAsync"} THEN "ctor"
               ELSE "kick"]
    /\ e = [f \in Frames |-> 0]
    /\ seedArg = [f \in Frames |-> IF f = Main THEN seed ELSE NoSeed]
    /\ i = [f \in Frames |-> 0]
    /\ x = [f \in Frames |-> 0]
    /\ y = [f \in Frames |-> 0]
    /\ insideCircle = [f \in Frames |-> 0]
    /\ rd = [f \in Frames |-> 0]
    /\ futures = [w \in Workers |-> EmptyFuture]
    /\ worker = 0
    /\ detached = {}
    /\ joined = {}
    /\ users = [g \in Frames |-> {}]
    /\ order = <<>>
    /\ setCount = [w \in Workers |-> 0]
    /\ startCount = [w \in Workers |-> 0]
    /\ result = NoResult

\* ------------------------------------------------- the sampling loop's steps

InLoop == {"loop", "x", "x2", "y", "y2", "test"}

\* std::default_random_engine e(seed): in the caller for SingleThread and
\* SimpleAsync, in the lambda for the others.
Construct(f) ==
    /\ pc[f] = "ctor"
    /\ e' = [e EXCEPT ![f] = SeedEngine(seedArg[f])]
    /\ pc' = [pc EXCEPT ![f] = IF f = Main /\ Partitioned THEN "kick" ELSE "loop"]
    /\ UNCHANGED <<inputs, order, setCount, startCount, users, seedArg, i, x, y, insideCircle, rd, futures, worker,
                   detached, joined, result>>

\* for (...; i < bound; ...): enter the body or leave the loop.
LoopTest(f) ==
    /\ pc[f] = "loop"
    /\ pc' = [pc EXCEPT ![f] = IF i[f] < LoopBound(f) THEN "x" ELSE "ret"]
    /\ UNCHANGED <<inputs, order, setCount, startCount, users, e, seedArg, i, x, y, insideCircle, rd, futures, worker,
                   detached, joined, result>>

\* The first half of d(e): the engine's state is read.
ReadEngine(f) ==
    /\ pc[f] \in {"x", "y"}
    /\ rd' = [rd EXCEPT ![f] = e[EngineOf(f)]]
    /\ users' = [users EXCEPT ![EngineOf(f)] = @ \cup {f}]
    /\ pc' = [pc EXCEPT ![f] = IF pc[f] = "x" THEN "x2" ELSE "y2"]
    /\ UNCHANGED <<inputs, order, setCount, startCount, e, seedArg, i, x, y, insideCircle, futures, worker,
                   detached, joined, result>>

\* The second half of d(e): the advanced state is written back and the
\* coordinate assigned.  No lock is taken between the two halves.
WriteEngine(f) ==
    /\ pc[f] \in {"x2", "y2"}
    /\ e' = [e EXCEPT ![EngineOf(f)] = EngineNext(rd[f])]
    /\ users' = [users EXCEPT ![EngineOf(f)] = @ \cup {f}]
    /\ IF pc[f] = "x2"
       THEN x' = [x EXCEPT ![f] = Coord(EngineNext(rd[f]))] /\ y' = y
       ELSE y' = [y EXCEPT ![f] = Coord(EngineNext(rd[f]))] /\ x' = x
    /\ rd' = [rd EXCEPT ![f] = 0]
    /\ pc' = [pc EXCEPT ![f] = IF pc[f] = "x2" THEN "y" ELSE "test"]
    /\ UNCHANGED <<inputs, order, setCount, startCount, seedArg, i, insideCircle, futures, worker,
                   detached, joined, result>>

\* if (Magnitude(x, y) <= 1.0f) insideCircle++; then i++.
Classify(f) ==
    /\ pc[f] = "test"
    /\ insideCircle' =
         [insideCircle EXCEPT ![f] = IF InsideCircle(x[f], y[f]) THEN @ + 1 ELSE @]
    /\ i' = [i EXCEPT ![f] = @ + 1]
    /\ pc' = [pc EXCEPT ![f] = "loop"]
    /\ UNCHANGED <<inputs, order, setCount, startCount, users, e, seedArg, x, y, rd, futures, worker,
                   detached, joined, result>>

\* Mutant of Publish: the value may be set again after it was set.
PublishAgain(w) ==
    /\ w \in Workers
    /\ pc[w] \in {"ret", "exit"}
    /\ futures' = [futures EXCEPT ![w] = [state |-> "value", value |-> insideCircle[w]]]
    /\ setCount' = [setCount EXCEPT ![w] = @ + 1]
    /\ pc' = [pc EXCEPT ![w] = "exit"]
    /\ UNCHANGED <<inputs, order, startCount, users, e, seedArg, i, x, y, insideCircle,
                   rd, worker, detached, joined, result>>

\* return insideCircle (the task's future becomes ready), or
\* returnVal.set_value(insideCircle).
Publish(w) ==
    /\ w \in Workers
    /\ pc[w] = "ret"
    /\ futures' = [futures EXCEPT ![w] = [state |-> "value", value |-> insideCircle[w]]]
    /\ setCount' = [setCount EXCEPT ![w] = @ + 1]
    /\ pc' = [pc EXCEPT ![w] = "exit"]
    /\ UNCHANGED <<inputs, order, startCount, users, e, seedArg, i, x, y, insideCircle, rd, worker,
                   detached, joined, result>>

\* The worker's locals and its promise are destroyed and its thread ends.
ThreadExit(w) ==
    /\ w \in Workers
    /\ pc[w] = "exit"
    /\ pc' = [pc EXCEPT ![w] = "dead"]
    /\ UNCHANGED <<inputs, order, setCount, startCount, users, e, seedArg, i, x, y, insideCircle, rd, futures, worker,
                   detached, joined, result>>

\* ------------------------------------------------------ the caller's steps

\* Mutant of KickOff: the loop's test is worker <= nrOfWorkers.
KickOffOneMore ==
    /\ pc[Main] = "kick"
    /\ worker <= nrOfWorkers
    /\ worker \in Workers
    /\ seedArg' = [seedArg EXCEPT ![worker] = U32Add(seed, worker)]
    /\ pc' = [pc EXCEPT ![worker] = IF strategy = "SimpleAsync" THEN "loop" ELSE "ctor"]
    /\ worker' = worker + 1
    /\ startCount' = [startCount EXCEPT ![worker] = @ + 1]
    /\ UNCHANGED <<inputs, order, setCount, users, e, i, x, y, insideCircle, rd, futures,
                   detached, joined, result>>

\* One pass of the "Kicking off threads" loop: std::async, or a promise, its
\* future and a std::thread, for the worker numbered worker.
KickOff ==
    /\ pc[Main] = "kick"
    /\ worker < nrOfWorkers
    /\ seedArg' = [seedArg EXCEPT ![worker] = WorkerSeed(worker)]
    /\ pc' = [pc EXCEPT ![worker] = IF strategy = "SimpleAsync" THEN "loop" ELSE "ctor"]
    /\ worker' = worker + 1
    /\ startCount' = [startCount EXCEPT ![worker] = @ + 1]
    /\ UNCHANGED <<inputs, order, setCount, users, e, i, x, y, insideCircle, rd, futures,
                   detached, joined, result>>

\* Mutant of KickOffDone: the caller starts to retrieve one pass early.
KickOffDoneEarly ==
    /\ pc[Main] = "kick"
    /\ worker >= nrOfWorkers - 1
    /\ pc' = [pc EXCEPT ![Main] = "retrieve"]
    /\ worker' = 0
    /\ insideCircle' = [insideCircle EXCEPT ![Main] = 0]
    /\ UNCHANGED <<inputs, order, setCount, startCount, users, e, seedArg, i, x, y, rd,
                   futures, detached, joined, result>>

\* The loop ends; size_t insideCircle = 0.
KickOffDone ==
    /\ pc[Main] = "kick"
    /\ worker >= nrOfWorkers
    /\ pc' = [pc EXCEPT ![Main] = "retrieve"]
    /\ worker' = 0
    /\ insideCircle' = [insideCircle EXCEPT ![Main] = 0]
    /\ UNCHANGED <<inputs, order, setCount, startCount, users, e, seedArg, i, x, y, rd, futures,
                   detached, joined, result>>

\* threads[worker].detach() (main.cpp).
Detach ==
    /\ pc[Main] = "retrieve"
    /\ worker < nrOfWorkers
    /\ strategy = "Threads"
    /\ detached' = detached \cup {worker}
    /\ pc' = [pc EXCEPT ![Main] = "get"]
    /\ UNCHANGED <<inputs, order, setCount, startCount, users, e, seedArg, i, x, y, insideCircle, rd, futures, worker,
                   joined, result>>

\* threads[worker].join() (workingImplementation.h): returns once the thread
\* has ended.
Join ==
    /\ pc[Main] = "retrieve"
    /\ worker < nrOfWorkers
    /\ strategy = "ThreadsJoin"
    /\ pc[worker] = "dead"
    /\ joined' = joined \cup {worker}
    /\ pc' = [pc EXCEPT ![Main] = "get"]
    /\ UNCHANGED <<inputs, order, setCount, startCount, users, e, seedArg, i, x, y, insideCircle, rd, futures, worker,
                   detached, result>>

\* Mutant of FutureReady: get() does not wait.
FutureReadyNoWait(w) == TRUE

\* The shared state holds a value or an exception.
FutureReady(w) == futures[w].state # "empty"

\* Where the caller stands when it calls futures[worker].get().
AtGet ==
    /\ worker < nrOfWorkers
    /\ pc[Main] = (IF UsesThreads THEN "get" ELSE "retrieve")

\* Mutant of Get: the caller takes whichever result is ready.
GetAnyReady ==
    /\ AtGet
    /\ \E w \in 0 .. nrOfWorkers - 1 :
         /\ \A k \in 1 .. Len(order) : order[k] # w
         /\ futures[w].state = "value"
         /\ insideCircle' = [insideCircle EXCEPT ![Main] = @ + futures[w].value]
         /\ order' = Append(order, w)
    /\ worker' = worker + 1
    /\ pc' = [pc EXCEPT ![Main] = "retrieve"]
    /\ UNCHANGED <<inputs, setCount, startCount, users, e, seedArg, i, x, y, rd, futures,
                   detached, joined, result>>

\* insideCircle += futures[worker].get(): blocks until the shared state is ready.
Get ==
    /\ AtGet
    /\ FutureReady(worker)
    /\ futures[worker].state # "exception"
    /\ insideCircle' = [insideCircle EXCEPT ![Main] = @ + futures[worker].value]
    /\ order' = Append(order, worker)
    /\ worker' = worker + 1
    /\ pc' = [pc EXCEPT ![Main] = "retrieve"]
    /\ UNCHANGED <<inputs, setCount, startCount, users, e, seedArg, i, x, y, rd, futures,
                   detached, joined, result>>

\* Mutant of RetrieveDone: the loop ends one pass early.
RetrieveDoneEarly ==
    /\ pc[Main] = "retrieve"
    /\ worker >= nrOfWorkers - 1
    /\ pc' = [pc EXCEPT ![Main] = "ret"]
    /\ UNCHANGED <<inputs, order, setCount, startCount, users, e, seedArg, i, x, y,
                   insideCircle, rd, futures, worker, detached, joined, result>>

\* The "Retrieving results" loop ends.
RetrieveDone ==
    /\ pc[Main] = "retrieve"
    /\ worker >= nrOfWorkers
    /\ pc' = [pc EXCEPT ![Main] = "ret"]
    /\ UNCHANGED <<inputs, order, setCount, startCount, users, e, seedArg, i, x, y, insideCircle, rd, futures, worker,
                   detached, joined, result>>

\* return 4.0f * (float)insideCircle / (float)iterations.
Return ==
    /\ pc[Main] = "ret"
    /\ result' = Estimate(insideCircle[Main], iterations)
    /\ pc' = [pc EXCEPT ![Main] = "done"]
    /\ UNCHANGED <<inputs, order, setCount, startCount, users, e, seedArg, i, x, y, insideCircle, rd, futures, worker,
                   detached, joined>>

Next ==
    \/ \E f \in Frames : Construct(f)
    \/ \E f \in Frames : LoopTest(f)
    \/ \E f \in Frames : ReadEngine(f)
    \/ \E f \in Frames : WriteEngine(f)
    \/ \E f \in Frames : Classify(f)
    \/ \E w \in Workers : Publish(w)
    \/ \E w \in Workers : ThreadExit(w)
    \/ KickOff
    \/ KickOffDone
    \/ Detach
    \/ Join
    \/ Get
    \/ RetrieveDone
    \/ Return

Spec == Init /\ [][Next]_vars

\* ------------------------------------------------- a worker that throws

\* No statement of the lambdas throws by itself; what follows is what the
\* library does when one does (an allocation failing in the profiler block,
\* for one).  At most one worker throws.
NoneThrew ==
    /\ \A f \in Frames : pc[f] # "aborted"
    /\ \A w \in Workers : futures[w].state # "exception"

\* In a std::async task the exception is stored in the shared state and the
\* task ends.
ThrowInTask(w) ==
    /\ UsesAsync
    /\ pc[w] \in {"loop", "test"}
    /\ NoneThrew
    /\ futures' = [futures EXCEPT ![w] = [state |-> "exception", value |-> 0]]
    /\ setCount' = [setCount EXCEPT ![w] = @ + 1]
    /\ pc' = [pc EXCEPT ![w] = "exit"]
    /\ UNCHANGED <<inputs, order, startCount, users, e, seedArg, i, x, y, insideCircle, rd, worker,
                   detached, joined, result>>

\* In a std::thread the exception leaves the thread's function, which has no
\* handler and never calls set_exception: std::terminate ends the process.
ThrowInThread(w) ==
    /\ UsesThreads
    /\ pc[w] \in {"loop", "test"}
    /\ NoneThrew
    /\ pc' = [f \in Frames |-> "aborted"]
    /\ UNCHANGED <<inputs, order, setCount, startCount, users, e, seedArg, i, x, y, insideCircle, rd, futures, worker,
                   detached, joined, result>>

\* futures[worker].get() rethrows the stored exception; no function of the
\* file catches it, so the caller's frame is unwound.
GetRethrows ==
    /\ AtGet
    /\ FutureReady(worker)
    /\ futures[worker].state = "exception"
    /\ pc' = [pc EXCEPT ![Main] = "unwind"]
    /\ UNCHANGED <<inputs, order, setCount, startCount, users, e, seedArg, i, x, y, insideCircle, rd, futures, worker,
                   detached, joined, result>>

\* The vector of futures is destroyed: the destructor of a future obtained
\* from std::async blocks until its task has ended.
Unwind ==
    /\ pc[Main] = "unwind"
    /\ \A w \in 0 .. nrOfWorkers - 1 : pc[w] = "dead"
    /\ pc' = [pc EXCEPT ![Main] = "thrown"]
    /\ UNCHANGED <<inputs, order, setCount, startCount, users, e, seedArg, i, x, y, insideCircle, rd, futures, worker,
                   detached, joined, result>>

NextFault ==
    \/ Next
    \/ \E w \in Workers : ThrowInTask(w)
    \/ \E w \in Workers : ThrowInThread(w)
    \/ GetRethrows
    \/ Unwind

SpecFault == Init /\ [][NextFault]_vars

\* ================================================================ properties

ActiveWorkers == 0 .. nrOfWorkers - 1

NonHazardous == strategy # "SimpleAsync"

\* The partitioned strategies that give every worker an engine of its own.
OwnEngine == strategy \in {"AsyncNoRef", "Async", "Threads", "ThreadsJoin"}

\* The workers whose result the caller has added to its sum.
Retrieved ==
    IF Partitioned /\ pc[Main] \in {"retrieve", "get", "ret", "done"}
    THEN 0 .. worker - 1
    ELSE {}

\* Frame f stands at or inside a call d(e).
InCall(f) == pc[f] \in {"x", "x2", "y", "y2"}

\* Frame f has read the engine's state and not yet written it back.
MidCall(f) == pc[f] \in {"x2", "y2"}

\* Two frames inside d(e) on the same engine, nothing ordering their accesses.
Racing(f, g) == f # g /\ InCall(f) /\ InCall(g) /\ EngineOf(f) = EngineOf(g)

Race == \E f, g \in Frames : Racing(f, g)

\* C1: in AsyncNoRef, Async and both forms of Threads, a worker whose result
\* the caller has retrieved has left its sampling loop after exactly its
\* share of iterations and has published its count, the value the caller
\* added; the caller never passes get() on a future that is not ready.
C1_RetrieveAfterCompleted ==
    OwnEngine =>
        \A w \in Retrieved :
            /\ futures[w].state = "value"
            /\ pc[w] \in {"exit", "dead"}
            /\ i[w] = LoopBound(w)
            /\ futures[w].value = insideCircle[w]

\* The caller has retrieved worker 0's result, after a detach, while worker 1
\* is still sampling.
C1_Witness ==
    /\ strategy = "Threads"
    /\ nrOfWorkers = 2
    /\ pc[Main] = "retrieve"
    /\ worker = 1
    /\ i[0] >= 1
    /\ pc[1] \in InLoop

\* C2: in the strategies other than SimpleAsync no two frames are ever inside
\* d(e) on the same engine, every engine is read and advanced only by the
\* frame that declared it, and a worker's engine exists only once that worker
\* has constructed it.
C2_NoSharedGenerator ==
    NonHazardous =>
        /\ ~Race
        /\ \A g \in Frames : users[g] \subseteq {g}
        /\ \A w \in Workers : e[w] # 0 => pc[w] \notin {"idle", "ctor"}
        /\ Partitioned => e[Main] = 0 /\ users[Main] = {}

\* Two workers of Threads are inside d(e) at the same time, each on its own
\* engine.
C2_Witness ==
    /\ strategy = "Threads"
    /\ MidCall(0)
    /\ MidCall(1)
    /\ users[0] = {0}
    /\ users[1] = {1}
    /\ e[0] # e[1]

\* C3: in SimpleAsync every task draws from the caller's engine e, none has
\* an engine of its own, and whenever two tasks are inside d(e) at the same
\* time they are inside it on that one engine: nothing keeps a second task
\* out while a first is between its read and its write.
C3_SharedGeneratorRaces ==
    strategy = "SimpleAsync" =>
        /\ \A w \in Workers : e[w] = 0 /\ users[w] = {}
        /\ \A w \in Workers : InCall(w) => EngineOf(w) = Main
        /\ \A f, g \in Workers : (f # g /\ InCall(f) /\ InCall(g)) => Racing(f, g)
        /\ \A f, g \in Workers :
             (f # g /\ MidCall(f) /\ pc[g] \in {"x", "y"}) => ENABLED ReadEngine(g)

\* With two workers and at least one iteration each, both tasks have read the
\* same state of e and neither has written it back.
C3_Witness ==
    /\ strategy = "SimpleAsync"
    /\ nrOfWorkers >= 2
    /\ iterations \div nrOfWorkers >= 1
    /\ MidCall(0)
    /\ MidCall(1)
    /\ rd[0] = rd[1]
    /\ {0, 1} \subseteq users[Main]

\* The sampling loop run on its own: the points inside the circle among n
\* samples drawn from an engine in state s.
RECURSIVE CountInside(_, _)
CountInside(n, s) ==
    IF n = 0 THEN 0
    ELSE LET v1 == EngineNext(s)
             v2 == EngineNext(v1)
         IN  (IF InsideCircle(Coord(v1), Coord(v2)) THEN 1 ELSE 0)
               + CountInside(n - 1, v2)

RECURSIVE SumOver(_, _)
SumOver(fn, n) == IF n = 0 THEN 0 ELSE fn[n - 1] + SumOver(fn, n - 1)

\* The count the arguments alone determine: each worker's share sampled on its
\* own from that worker's seed, summed.
ExpectedTotal ==
    IF ~Partitioned THEN CountInside(iterations, SeedEngine(seed))
    ELSE IF nrOfWorkers = 0 THEN 0
    ELSE SumOver([w \in ActiveWorkers |->
                    CountInside(iterations \div nrOfWorkers, SeedEngine(WorkerSeed(w)))],
                 nrOfWorkers)

\* C4: in every strategy but SimpleAsync the count and the estimate returned
\* are those the arguments determine, whatever the interleaving of the
\* workers' steps and the order in which they finish.
C4_Deterministic ==
    (NonHazardous /\ pc[Main] = "done") =>
        /\ insideCircle[Main] = ExpectedTotal
        /\ result = Estimate(ExpectedTotal, iterations)

\* AsyncNoRef has returned a non-zero estimate from two workers of two
\* iterations each, whose counts differ.
C4_Witness ==
    /\ strategy = "AsyncNoRef"
    /\ pc[Main] = "done"
    /\ nrOfWorkers = 2
    /\ iterations \div nrOfWorkers = 2
    /\ result.kind = "value"
    /\ result.num > 0
    /\ insideCircle[0] # insideCircle[1]

\* C6: with at least one worker, no worker of a partitioned strategy runs
\* more than iterations / nrOfWorkers iterations, each has run exactly that
\* many when it leaves its loop, and at the return the iterations run are
\* (iterations / nrOfWorkers) * nrOfWorkers in all: fewer than iterations
\* whenever nrOfWorkers does not divide it.
C6_FloorShare ==
    (Partitioned /\ nrOfWorkers >= 1) =>
        /\ \A w \in ActiveWorkers :
             /\ i[w] <= iterations \div nrOfWorkers
             /\ pc[w] \in {"ret", "exit", "dead"} => i[w] = iterations \div nrOfWorkers
        /\ pc[Main] = "done" =>
             /\ SumOver(i, nrOfWorkers) = (iterations \div nrOfWorkers) * nrOfWorkers
             /\ iterations % nrOfWorkers # 0 => SumOver(i, nrOfWorkers) < iterations

\* Three iterations over two workers: each ran one, and one was dropped.
C6_Witness ==
    /\ strategy = "Threads"
    /\ pc[Main] = "done"
    /\ iterations = 3
    /\ nrOfWorkers = 2
    /\ i[0] = 1
    /\ i[1] = 1

\* The unsigned int after u; the one after UINT_MAX is 0.
Succ32(u) ==
    IF u[2] < Half - 1 THEN <<u[1], u[2] + 1>>
    ELSE IF u[1] < Half - 1 THEN <<u[1] + 1, 0>>
    ELSE <<0, 0>>

RECURSIVE NthAfter(_, _)
NthAfter(u, n) == IF n = 0 THEN u ELSE NthAfter(Succ32(u), n - 1)

Started(w) == pc[w] # "idle"

\* C10: in AsyncNoRef and Threads worker w is started with the w-th unsigned
\* int after seed (wrapping at 2^32), constructs its engine from it, and no
\* two workers are started with the same seed.
C10_DistinctSeeds ==
    strategy \in {"AsyncNoRef", "Threads"} =>
        /\ \A w \in Workers : Started(w) => seedArg[w] = NthAfter(seed, w)
        /\ \A w \in Workers :
             (pc[w] = "loop" /\ i[w] = 0) => e[w] = SeedEngine(NthAfter(seed, w))
        /\ \A v, w \in Workers :
             (v # w /\ Started(v) /\ Started(w)) => seedArg[v] # seedArg[w]

\* Called with UINT_MAX, Threads has started worker 0 with UINT_MAX and
\* worker 1 with 0, and worker 1 has constructed its engine.
C10_Witness ==
    /\ strategy = "Threads"
    /\ seed = U32(65535, 65535)
    /\ Started(0)
    /\ seedArg[1] = U32(0, 0)
    /\ pc[1] = "loop"
    /\ e[1] = 1

\* Two results are the same value.
SameValue(r, q) == r.kind = q.kind /\ r.num * q.den = q.num * r.den

\* C5: the estimate AsyncNoRef, Async and Threads return is 4 * (the sum of the
\* workers' counts) over the iterations run, nrOfWorkers * (iterations /
\* nrOfWorkers), not over iterations (stated where every worker runs at least
\* one iteration).
C5_EstimateOverIterationsRun ==
    (OwnEngine /\ nrOfWorkers >= 1 /\ iterations \div nrOfWorkers >= 1
       /\ pc[Main] = "done") =>
        SameValue(result,
                  Estimate(insideCircle[Main],
                           nrOfWorkers * (iterations \div nrOfWorkers)))

\* C7: called with nrOfWorkers = 0 (here with iterations >= 1), AsyncNoRef,
\* Async and Threads start no worker and return no estimate.
C7_ZeroWorkersRejected ==
    (OwnEngine /\ nrOfWorkers = 0 /\ iterations >= 1) =>
        /\ \A w \in Workers : ~Started(w)
        /\ result.kind = "none"
        /\ pc[Main] # "done"

\* C8: called with iterations = 0 and at least one worker, a strategy starts
\* no task or thread and returns no estimate.
C8_ZeroIterationsRejected ==
    (iterations = 0 /\ nrOfWorkers >= 1) =>
        /\ \A w \in Workers : ~Started(w)
        /\ result.kind = "none"
        /\ pc[Main] # "done"

\* C9: when one of several workers throws (each with at least one iteration
\* to run), the process is not ended, no estimate is returned, the caller
\* meets the failure at that worker's get(), and by the time the failure has
\* left the function every other worker has published its count and ended.
C9_FailureDeliveredAtGet ==
    (nrOfWorkers >= 2 /\ iterations \div nrOfWorkers >= 1) =>
        /\ \A f \in Frames : pc[f] # "aborted"
        /\ \A k \in Workers :
             futures[k].state = "exception" =>
                /\ result.kind = "none"
                /\ pc[Main] \in {"unwind", "thrown"} => worker = k
                /\ pc[Main] = "thrown" =>
                     \A w \in ActiveWorkers \ {k} :
                        pc[w] = "dead" /\ futures[w].state = "value"

\* The same for the std::async strategies alone.
FailureDeliveredAtGetAsync == UsesAsync => C9_FailureDeliveredAtGet

\* C11: called with one worker, AsyncNoRef and Threads return the count of
\* the sampling loop run on its own over all the iterations from the caller's
\* seed, which is the count SingleThread returns for that seed.
C11_OneWorkerAsSingleThread ==
    (pc[Main] = "done"
       /\ (strategy = "SingleThread"
             \/ (strategy \in {"AsyncNoRef", "Threads"} /\ nrOfWorkers = 1))) =>
        /\ insideCircle[Main] = CountInside(iterations, SeedEngine(seed))
        /\ result = Estimate(CountInside(iterations, SeedEngine(seed)), iterations)

\* Threads has returned a non-zero count from its one worker.
C11_Witness ==
    /\ strategy = "Threads"
    /\ nrOfWorkers = 1
    /\ pc[Main] = "done"
    /\ iterations >= 2
    /\ futures[0].value = insideCircle[Main]
    /\ insideCircle[Main] > 0

\* C12: in AsyncNoRef and in Threads the count worker w publishes is that of
\* the sampling loop run on its own over iterations / nrOfWorkers iterations
\* from the w-th seed after the caller's; the total and the estimate returned
\* are the sum of those counts, the same in both strategies.
C12_UnitOfWorkAsDirectRun ==
    (strategy \in {"AsyncNoRef", "Threads"} /\ nrOfWorkers >= 1) =>
        /\ \A w \in ActiveWorkers :
             futures[w].state = "value" =>
                futures[w].value =
                    CountInside(iterations \div nrOfWorkers,
                                SeedEngine(NthAfter(seed, w)))
        /\ pc[Main] = "done" =>
             result =
               Estimate(SumOver([w \in ActiveWorkers |->
                                   CountInside(iterations \div nrOfWorkers,
                                               SeedEngine(NthAfter(seed, w)))],
                                nrOfWorkers),
                        iterations)

\* Worker 1 of AsyncNoRef has published a non-zero count of two iterations.
C12_Witness ==
    /\ strategy = "AsyncNoRef"
    /\ nrOfWorkers = 2
    /\ iterations \div nrOfWorkers = 2
    /\ futures[1].state = "value"
    /\ futures[1].value > 0
    /\ i[1] = 2

\* The workers in a sequence.
Range(q) == {q[k] : k \in 1 .. Len(q)}

\* C13: when a partitioned strategy computes its estimate and returns, the
\* caller has added the result of every one of the nrOfWorkers workers: the
\* results added are nrOfWorkers in number, one of each worker, and the sum
\* is the sum of the published counts.
C13_AllRetrievedAtReturn ==
    (Partitioned /\ pc[Main] \in {"ret", "done"}) =>
        /\ Len(order) = nrOfWorkers
        /\ worker = nrOfWorkers
        /\ Range(order) = ActiveWorkers
        /\ \A w \in ActiveWorkers : futures[w].state = "value"
        /\ insideCircle[Main]
             = SumOver([w \in ActiveWorkers |-> futures[w].value], nrOfWorkers)

\* Threads is about to return with both workers' results in a non-zero sum.
C13_Witness ==
    /\ strategy = "Threads"
    /\ nrOfWorkers = 2
    /\ pc[Main] = "ret"
    /\ Len(order) = 2
    /\ insideCircle[Main] > 0

\* The caller is in its "Retrieving results" block or past it.
Retrieving == pc[Main] \in {"retrieve", "get", "ret", "done"}

StartedWorkers == {w \in Workers : Started(w)}

\* C14: in the std::async strategies, once the caller waits for a result (the
\* first is that of futures[0]) every one of the nrOfWorkers tasks has been
\* submitted, each once; while any is still to be submitted no result has
\* been added.
C14_AllSubmittedBeforeFirstGet ==
    UsesAsync =>
        /\ (Retrieving \/ Len(order) > 0) =>
              \A w \in ActiveWorkers : Started(w) /\ startCount[w] = 1
        /\ (\E w \in ActiveWorkers : ~Started(w)) =>
              order = <<>> /\ pc[Main] \in {"ctor", "kick"}

\* The caller of AsyncNoRef waits for futures[0] with nothing retrieved yet
\* while both tasks run their loops.
C14_Witness ==
    /\ strategy = "AsyncNoRef"
    /\ nrOfWorkers = 2
    /\ pc[Main] = "retrieve"
    /\ worker = 0
    /\ order = <<>>
    /\ pc[0] \in InLoop
    /\ pc[1] \in InLoop

\* How often w occurs in the sequence q.
Occurrences(q, w) == Cardinality({k \in 1 .. Len(q) : q[k] = w})

\* C15: in a partitioned strategy each worker's shared state is set at most
\* once, by that worker's own publishing step and by no step of the caller or
\* of another worker; it is set when the worker has ended; its value is added
\* to the sum at most once, only after it was set, and exactly once by the
\* time the caller returns.
C15_SetOnceReadOnce ==
    /\ [](Partitioned =>
            \A w \in Workers :
               /\ setCount[w] <= 1
               /\ (setCount[w] = 1) <=> (futures[w].state = "value")
               /\ (setCount[w] = 1) <=> (pc[w] \in {"exit", "dead"})
               /\ Occurrences(order, w) <= 1
               /\ Occurrences(order, w) = 1 => setCount[w] = 1
               /\ (pc[Main] = "done" /\ w \in ActiveWorkers) =>
                     Occurrences(order, w) = 1)
    /\ [][\A w \in Workers :
            futures'[w] # futures[w] =>
               /\ pc[w] = "ret"
               /\ pc'[w] = "exit"
               /\ pc'[Main] = pc[Main]
               /\ worker' = worker
               /\ \A v \in Workers \ {w} : futures'[v] = futures[v] /\ pc'[v] = pc[v]]_vars

\* Threads has returned: both shared states were set once and read once.
C15_Witness ==
    /\ strategy = "Threads"
    /\ nrOfWorkers = 2
    /\ pc[Main] = "done"
    /\ setCount[0] = 1
    /\ setCount[1] = 1
    /\ order = <<0, 1>>

\* C17: in a partitioned strategy a unit is started at most once per ordinal
\* and only for the ordinals below nrOfWorkers, so never more than
\* nrOfWorkers are started or running; while the caller kicks off, the
\* ordinals below worker are started; once it retrieves, exactly one unit per
\* ordinal has been started and none is started any more.
C17_OneUnitPerOrdinal ==
    /\ [](Partitioned =>
            /\ \A w \in Workers :
                 /\ startCount[w] <= 1
                 /\ Started(w) <=> startCount[w] = 1
                 /\ Started(w) => w \in ActiveWorkers
            /\ Cardinality(StartedWorkers) <= nrOfWorkers
            /\ pc[Main] = "kick" => StartedWorkers = 0 .. worker - 1
            /\ Retrieving => StartedWorkers = ActiveWorkers)
    /\ [][Retrieving => startCount' = startCount]_vars

\* Both units of Threads are started, both still running, and the caller has
\* begun to retrieve.
C17_Witness ==
    /\ strategy = "Threads"
    /\ nrOfWorkers = 2
    /\ pc[Main] = "get"
    /\ worker = 0
    /\ startCount[0] = 1
    /\ startCount[1] = 1
    /\ pc[0] \in InLoop
    /\ pc[1] \in InLoop

\* C18: the results are added in the order 0, 1, ... of the workers, one per
\* pass of the retrieving loop: the k-th result added is worker k - 1's, also
\* when a later worker has finished first.
C18_RetrievedInOrdinalOrder ==
    Partitioned =>
        /\ \A k \in 1 .. Len(order) : order[k] = k - 1
        /\ Retrieving => Len(order) = worker
        /\ ~Retrieving => order = <<>>

\* Worker 1 of Threads has ended while worker 0 is still sampling: the caller
\* waits for worker 0 and has retrieved nothing.
C18_Witness ==
    /\ strategy = "Threads"
    /\ nrOfWorkers = 2
    /\ pc[1] = "dead"
    /\ futures[1].state = "value"
    /\ pc[0] \in InLoop
    /\ pc[Main] = "get"
    /\ worker = 0
    /\ order = <<>>

\* One step of worker w's unit of work: a step of its lambda or the end of
\* its thread.
WorkerStep(w) ==
    \/ Construct(w)
    \/ LoopTest(w)
    \/ ReadEngine(w)
    \/ WriteEngine(w)
    \/ Classify(w)
    \/ Publish(w)
    \/ ThreadExit(w)

\* One step of the calling thread.
CallerStep ==
    \/ Construct(Main)
    \/ LoopTest(Main)
    \/ ReadEngine(Main)
    \/ WriteEngine(Main)
    \/ Classify(Main)
    \/ KickOff
    \/ KickOffDone
    \/ Detach
    \/ Join
    \/ Get
    \/ RetrieveDone
    \/ Return

\* C19: in every strategy but SimpleAsync, a step of worker w changes nothing
\* but w's own engine, coordinates, loop counter, count, position and shared
\* state, and draws from no engine but its own: every other worker's and the
\* caller's engine (and the set of frames that used it), coordinates, counter,
\* count and position, every other shared state, the retrieving index and the
\* result stay as they were; the caller's sum changes only in a step of the
\* caller.
C19_WorkerStepsAreLocal ==
    [][NonHazardous =>
         /\ \A w \in Workers :
              WorkerStep(w) =>
                 /\ \A f \in Frames \ {w} :
                      /\ e'[f] = e[f]
                      /\ users'[f] = users[f]
                      /\ i'[f] = i[f]
                      /\ x'[f] = x[f]
                      /\ y'[f] = y[f]
                      /\ rd'[f] = rd[f]
                      /\ insideCircle'[f] = insideCircle[f]
                      /\ pc'[f] = pc[f]
                 /\ \A v \in Workers \ {w} : futures'[v] = futures[v]
                 /\ worker' = worker
                 /\ order' = order
                 /\ result' = result
         /\ insideCircle'[Main] # insideCircle[Main] => CallerStep]_vars

\* Both workers of AsyncNoRef are inside their loops, each with an engine of
\* its own that it has advanced, and have counted differently; the caller's
\* sum is untouched.
C19_Witness ==
    /\ strategy = "AsyncNoRef"
    /\ nrOfWorkers = 2
    /\ pc[0] \in InLoop
    /\ pc[1] \in InLoop
    /\ i[0] >= 1
    /\ i[1] >= 1
    /\ e[0] # e[1]
    /\ insideCircle[0] # insideCircle[1]
    /\ insideCircle[Main] = 0

\* C20: when either form of Threads has returned from a call with at least
\* one iteration per worker, every worker thread it started has ended.
C20_NoWorkerOutlivesThreads ==
    (UsesThreads /\ nrOfWorkers >= 1 /\ iterations >= nrOfWorkers /\ pc[Main] = "done") =>
        \A w \in ActiveWorkers : pc[w] = "dead"

\* The join-then-get form alone: every worker thread has been joined, and so
\* has ended, when the function returns.
NoWorkerOutlivesThreadsJoin ==
    (strategy = "ThreadsJoin" /\ pc[Main] \in {"ret", "done"}) =>
        \A w \in ActiveWorkers : pc[w] = "dead" /\ w \in joined

\* The same program under a scheduler that does not stop: while some thread
\* can take a step, some thread eventually takes one.  Every scheduler that
\* is fair to each thread is of this kind.
FairSpec == Spec /\ WF_vars(Next)

\* C16: under fair scheduling a call of any strategy with iterations >= 1 and
\* nrOfWorkers >= 1 returns: the caller is not blocked forever in join() or
\* get(), and by then every worker has been started, has run its loop to its
\* bound and has published its count.
C16_TerminatesUnderFairness ==
    (iterations >= 1 /\ nrOfWorkers >= 1) =>
        <>(/\ pc[Main] = "done"
           /\ result # NoResult
           /\ Partitioned =>
                \A w \in ActiveWorkers :
                   /\ setCount[w] = 1
                   /\ i[w] = LoopBound(w)
                   /\ pc[w] \in {"exit", "dead"})

\* The join-then-get form has returned after joining both of its workers,
\* each of which ran at least one iteration.
C16_Witness ==
    /\ strategy = "ThreadsJoin"
    /\ nrOfWorkers = 2
    /\ iterations \div nrOfWorkers >= 1
    /\ joined = {0, 1}
    /\ pc[Main] = "done"
    /\ pc[0] = "dead"
    /\ pc[1] = "dead"

====
